---- MODULE Spec2Model ----
(***************************************************************************)
(* nuke_modules: the bounded-concurrency walks of src/src/fs.rs            *)
(* (find_node_modules, calc_node_modules_sizes, nuke_node_modules) and the *)
(* workflow of src/src/main.rs that chains them.                           *)
(*                                                                         *)
(* The disk is a finite tree of entries.  Every tokio task is a record in  *)
(* `tasks`; one action is one stretch of a task between two await points.  *)
(* A filesystem call either succeeds or fails; the calls that have failed  *)
(* are kept in `faults`.                                                   *)
(***************************************************************************)
EXTENDS Integers, Sequences, FiniteSets, TLC

\* ------------------------------------------------------------------ bounds

\* The disk holds the entries 2..MaxNode below the start path 1.
MaxNode == 6
\* The cap max_concurrency ranges over 1..MaxCap.
MaxCap == 2
\* At most MaxFaults filesystem calls of a run fail.
MaxFaults == 1
\* A caller of nuke_node_modules hands it at most MaxRecords records,
\* and calls it at most MaxCalls times on the same list.
MaxRecords == 2
MaxCalls == 2
\* The warnings of a directory stream that keeps failing are counted up to
\* MaxWarns.
MaxWarns == 1

\* ------------------------------------------------------------------- state

VARIABLES
    kind,          \* entry -> "dir" | "file" | "link": what file_type() reports
    cap,           \* max_concurrency
    faults,        \* set of <<call, path>>: the filesystem calls that have failed
    removed,       \* paths a recursive removal has taken off the disk
    phase,         \* where main (or the caller of fs.rs) stands
    avail,         \* the Semaphore's available permits
    permits,       \* tasks that own an OwnedSemaphorePermit
    tasks,         \* task id -> the task's locals and its place in the code
    node_modules,  \* Vec<NodeModules>: sequence of [path, size]
    total_byte_size,      \* what calc_node_modules_sizes last returned
    total_bytes_deleted,  \* what nuke_node_modules last returned
    warns,         \* warn! lines logged by the running top-level call
    calls,         \* nuke_node_modules calls that have returned
    all_gone,      \* history: no directory of the list was on the disk when
                   \* the last nuke_node_modules call began
    answer,        \* main's `answer`: "none" until the confirmation, then
                   \* "yes" (Ok(true)), "no" (Ok(false)) or "err" (Err)
    finds,         \* history: the set of paths each find_node_modules call
                   \* returned, in call order
    writes         \* history: index -> how often calc_node_modules_sizes
                   \* has assigned node_modules[index].size in this call

vars == <<kind, cap, faults, removed, phase, avail, permits, tasks,
          node_modules, total_byte_size, total_bytes_deleted, warns, calls,
          all_gone, answer, finds, writes>>

\* What no step of a walk changes.
disk == <<kind, cap, removed>>
results == <<node_modules, total_byte_size, total_bytes_deleted, calls, all_gone,
             answer, finds, writes>>

\* -------------------------------------------------------------------- disk

Root == 1
Nodes == 1..MaxNode
DirEntries == 2..MaxNode

\* The layout of the disk: the directory each entry lies in.
\*   1 +- 2 node_modules +- 4 node_modules -- 6 pkg
\*     |                 +- 7 pkg
\*     +- 3 pkg ---------+- 5 node_modules
\*                       +- 8 pkg
ParentOf == <<1, 1, 1, 2, 3, 4, 2, 3>>
Parent(n) == ParentOf[n]

NODE_MODULES == "node_modules"

\* dir_entry.file_name(): names are unique within a directory.
file_name(n) == IF n \in {2, 4, 5} THEN "node_modules" ELSE "pkg"

\* file_type.is_dir() and file_type.is_symlink() of an entry: the type is
\* the entry's own, a symlink is not followed.
is_dir(e) == kind[e] = "dir"
is_symlink(e) == kind[e] = "link"

RECURSIVE Pow2(_)
Pow2(k) == IF k = 0 THEN 1 ELSE 2 * Pow2(k - 1)

\* metadata.len() of an entry: distinct powers of two, so that a sum of
\* lengths tells exactly which entries were counted.
MetadataLen(n) == Pow2(n - 2)

RECURSIVE Ancestors(_)
Ancestors(n) == IF n = Root THEN {} ELSE {Parent(n)} \cup Ancestors(Parent(n))

\* An entry is on the disk k when all that lies above it is a directory.
OnDisk(k, n) == \A a \in Ancestors(n) \ {Root} : k[a] = "dir"

\* A path is there when it is on the disk and no removal has taken it or a
\* directory above it.
Exists(n) == OnDisk(kind, n) /\ ({n} \cup Ancestors(n)) \cap removed = {}

\* The entries of directory d in ascending order, from entry n on.
RECURSIVE EntriesFrom(_, _)
EntriesFrom(d, n) ==
    IF n > MaxNode THEN <<>>
    ELSE IF Parent(n) = d THEN <<n>> \o EntriesFrom(d, n + 1)
    ELSE EntriesFrom(d, n + 1)

\* What tokio::fs::read_dir(d) lists, in the order next_entry() yields it.
ReadDirEntries(d) == EntriesFrom(d, 2)

\* Disks in canonical form: what lies below a non-directory is not on the
\* disk and is fixed to "file".
Disks ==
    {k \in [DirEntries -> {"dir", "file", "link"}] :
        \A n \in DirEntries : ~OnDisk(k, n) => k[n] = "file"}

\* A filesystem call may fail while fewer than MaxFaults calls have failed;
\* Failed(call, n) records that the call on path n failed.
MayFail == Cardinality(faults) < MaxFaults
Failed(call, n) == faults' = faults \cup {<<call, n>>}

\* ----------------------------------------------------------------- options

\* Option<u64> and Result<u64>: <<>> is None (Err), <<v>> is Some(v) (Ok(v)).
None == <<>>
Some(v) == <<v>>
unwrap_or(o, d) == IF o = None THEN d ELSE o[1]

\* The elements of a sequence.
Range(s) == {s[i] : i \in 1..Len(s)}

\* NodeModules::new(path): the size is unset.
NodeModules_new(path) == [path |-> path, size |-> None]

\* ------------------------------------------------------------------- tasks

\* A task is named <<i, path>>: path is the directory it works on and i the
\* index of the record whose top-level task it descends from (0 in find,
\* whose walk starts in the caller itself).
Slot(t) == t[1]
Path(t) == t[2]

\* A freshly spawned task: it has not yet asked for its permit.  `set` is
\* its JoinSet, `found` and `size` its partial result, `err` whether it
\* returned Err.
NewTask ==
    [pc |-> "acquire", pos |-> 1, found |-> <<>>, size |-> 0, set |-> {},
     err |-> FALSE]

TaskIds == DOMAIN tasks

\* tasks with the task c put in place as t is replaced by `self`.
WithTask(t, self, c, new) ==
    [n \in TaskIds \cup {c} |->
        IF n = c THEN new ELSE IF n = t THEN self ELSE tasks[n]]

\* Mutant of acquire_owned: the permit is handed out without waiting for a
\* free one.
acquire_owned_unguarded(t) ==
    /\ avail' = avail - 1
    /\ permits' = permits \cup {t}

\* sem.acquire_owned().await: resumes only when a permit is free.
acquire_owned(t) ==
    /\ avail > 0
    /\ avail' = avail - 1
    /\ permits' = permits \cup {t}

\* drop(_permit) at the end of the permit's scope.
drop_permit(t) ==
    /\ avail' = avail + 1
    /\ permits' = permits \ {t}

\* Semaphore::new(max_concurrency)
Semaphore_new ==
    /\ avail' = cap
    /\ permits' = {}

\* ------------------------------------------------------------------- find

\* find_node_modules: a fresh limiter, then the walk of the start path runs
\* inline in the caller.
find_node_modules ==
    /\ phase = "start"
    /\ phase' = "find"
    /\ Semaphore_new
    /\ tasks' = (<<0, Root>> :> NewTask)
    /\ warns' = 0
    /\ UNCHANGED <<disk, faults, results>>

\* Mutant of find_inner_acquire: `let _ = ...acquire_owned().await` drops
\* the permit as soon as it is granted.
find_inner_acquire_let_underscore(t) ==
    /\ phase = "find"
    /\ tasks[t].pc = "acquire"
    /\ avail > 0
    /\ tasks' = [tasks EXCEPT ![t].pc = "open"]
    /\ UNCHANGED <<disk, faults, results, phase, warns, avail, permits>>

\* find_node_modules_inner, the permit is granted.
find_inner_acquire(t) ==
    /\ phase = "find"
    /\ tasks[t].pc = "acquire"
    /\ acquire_owned(t)
    /\ tasks' = [tasks EXCEPT ![t].pc = "open"]
    /\ UNCHANGED <<disk, faults, results, phase, warns>>

\* find_node_modules_inner, read_dir(start_path): on failure `?` drops the
\* permit and returns the error; the JoinSet is still empty.
find_inner_read_dir(t) ==
    /\ phase = "find"
    /\ tasks[t].pc = "open"
    /\ \/ /\ faults' = faults
          /\ tasks' = [tasks EXCEPT ![t].pc = "enum"]
          /\ UNCHANGED <<avail, permits>>
       \/ /\ MayFail
          /\ Failed("open", Path(t))
          /\ drop_permit(t)
          /\ tasks' = [tasks EXCEPT ![t].pc = "done", ![t].err = TRUE]
    /\ UNCHANGED <<disk, results, phase, warns>>

\* Mutant of find_visit: the type is taken from the link's target, as
\* std::fs::metadata reports it, and the symlink test is missing.
find_visit_follows_links(e) ==
    IF kind[e] = "file" THEN "skip"
    ELSE IF file_name(e) = NODE_MODULES THEN "record"
    ELSE "descend"

\* The visit rule of find for an entry whose file type was read:
\* "skip", "record" or "descend".
find_visit(e) ==
    IF ~is_dir(e) \/ is_symlink(e) THEN "skip"
    ELSE IF file_name(e) = NODE_MODULES THEN "record"
    ELSE "descend"

\* What a failed next_entry() leaves of the directory stream: it goes on
\* where it was, or it has ended and the next call yields Ok(None).
next_entry_after_err(t, ends) ==
    IF ends THEN Len(ReadDirEntries(Path(t))) + 1 ELSE tasks[t].pos

\* find_node_modules_inner, next_entry() returns Err: logged, the loop goes on.
find_inner_entry_err(t) ==
    /\ phase = "find"
    /\ tasks[t].pc = "enum"
    /\ MayFail
    /\ <<"entry", Path(t)>> \notin faults
    /\ Failed("entry", Path(t))
    /\ warns' = warns + 1
    /\ \E ends \in BOOLEAN :
          tasks' = [tasks EXCEPT ![t].pos = next_entry_after_err(t, ends)]
    /\ UNCHANGED <<disk, results, phase, avail, permits>>

\* find_node_modules_inner, next_entry() returns Err once more on a stream
\* that has failed before: the task is in the Err arm of the match.
find_inner_entry_err_again(t) ==
    /\ phase = "find"
    /\ tasks[t].pc = "enum"
    /\ <<"entry", Path(t)>> \in faults
    /\ tasks' = [tasks EXCEPT ![t].pc = "entry_err"]
    /\ UNCHANGED <<disk, faults, results, phase, avail, permits, warns>>

\* find_node_modules_inner, the Err arm: warn!, then `continue` takes the
\* task back to next_entry().
find_inner_entry_err_continue(t) ==
    /\ phase = "find"
    /\ tasks[t].pc = "entry_err"
    /\ warns' = IF warns < MaxWarns THEN warns + 1 ELSE warns
    /\ tasks' = [tasks EXCEPT ![t].pc = "enum"]
    /\ UNCHANGED <<disk, faults, results, phase, avail, permits>>

\* Mutant of find_inner_next_entry: the child is handed the records found
\* so far and returns them with its own.
find_inner_next_entry_child_inherits(t) ==
    /\ phase = "find"
    /\ tasks[t].pc = "enum"
    /\ tasks[t].pos <= Len(ReadDirEntries(Path(t)))
    /\ LET e == ReadDirEntries(Path(t))[tasks[t].pos]
           self == [tasks[t] EXCEPT !.pos = @ + 1]
       IN  \/ /\ MayFail
              /\ Failed("type", e)
              /\ tasks' = [tasks EXCEPT ![t] = self]
              /\ warns' = warns + 1
           \/ /\ faults' = faults
              /\ warns' = warns
              /\ tasks' =
                   CASE find_visit(e) = "skip" -> [tasks EXCEPT ![t] = self]
                     [] find_visit(e) = "record" ->
                          [tasks EXCEPT ![t] =
                              [self EXCEPT !.found = Append(@, NodeModules_new(e))]]
                     [] find_visit(e) = "descend" ->
                          WithTask(t, [self EXCEPT !.set = @ \cup {<<Slot(t), e>>}],
                                   <<Slot(t), e>>,
                                   [NewTask EXCEPT !.found = tasks[t].found])
    /\ UNCHANGED <<disk, results, phase, avail, permits>>

\* Mutant of find_inner_next_entry: the `continue` after a match is missing,
\* so a recorded node_modules is descended into as well.
find_inner_next_entry_no_continue(t) ==
    /\ phase = "find"
    /\ tasks[t].pc = "enum"
    /\ tasks[t].pos <= Len(ReadDirEntries(Path(t)))
    /\ LET e == ReadDirEntries(Path(t))[tasks[t].pos]
           self == [tasks[t] EXCEPT !.pos = @ + 1]
           child == <<Slot(t), e>>
       IN  \/ /\ MayFail
              /\ Failed("type", e)
              /\ tasks' = [tasks EXCEPT ![t] = self]
              /\ warns' = warns + 1
           \/ /\ faults' = faults
              /\ warns' = warns
              /\ tasks' =
                   CASE find_visit(e) = "skip" -> [tasks EXCEPT ![t] = self]
                     [] find_visit(e) = "record" ->
                          WithTask(t, [self EXCEPT !.found = Append(@, NodeModules_new(e)),
                                                   !.set = @ \cup {child}],
                                   child, NewTask)
                     [] find_visit(e) = "descend" ->
                          WithTask(t, [self EXCEPT !.set = @ \cup {child}], child, NewTask)
    /\ UNCHANGED <<disk, results, phase, avail, permits>>

\* find_node_modules_inner, one turn of the loop on Ok(Some(dir_entry)).
find_inner_next_entry(t) ==
    /\ phase = "find"
    /\ tasks[t].pc = "enum"
    /\ tasks[t].pos <= Len(ReadDirEntries(Path(t)))
    /\ LET e == ReadDirEntries(Path(t))[tasks[t].pos]
           self == [tasks[t] EXCEPT !.pos = @ + 1]
       IN  \/ /\ MayFail
              /\ Failed("type", e)
              /\ tasks' = [tasks EXCEPT ![t] = self]
              /\ warns' = warns + 1
           \/ /\ faults' = faults
              /\ warns' = warns
              /\ tasks' =
                   CASE find_visit(e) = "skip" -> [tasks EXCEPT ![t] = self]
                     [] find_visit(e) = "record" ->
                          [tasks EXCEPT ![t] =
                              [self EXCEPT !.found = Append(@, NodeModules_new(e))]]
                     [] find_visit(e) = "descend" ->
                          WithTask(t, [self EXCEPT !.set = @ \cup {<<Slot(t), e>>}],
                                   <<Slot(t), e>>, NewTask)
    /\ UNCHANGED <<disk, results, phase, avail, permits>>

\* Mutant of find_inner_end_of_dir: the function returns at the end of the
\* listing without joining the children it spawned.
find_inner_end_of_dir_detached(t) ==
    /\ phase = "find"
    /\ tasks[t].pc = "enum"
    /\ tasks[t].pos > Len(ReadDirEntries(Path(t)))
    /\ drop_permit(t)
    /\ tasks' = [tasks EXCEPT ![t].pc = "done"]
    /\ UNCHANGED <<disk, faults, results, phase, warns>>

\* find_node_modules_inner, Ok(None): the scope ends and the permit is
\* dropped; with no child spawned the join loop ends at once.
find_inner_end_of_dir(t) ==
    /\ phase = "find"
    /\ tasks[t].pc = "enum"
    /\ tasks[t].pos > Len(ReadDirEntries(Path(t)))
    /\ drop_permit(t)
    /\ tasks' = [tasks EXCEPT ![t].pc = IF tasks[t].set = {} THEN "done" ELSE "join"]
    /\ UNCHANGED <<disk, faults, results, phase, warns>>

\* Mutant of find_inner_join_next: the child's error is passed on with `?`.
find_inner_join_next_propagates(t, c) ==
    /\ phase = "find"
    /\ tasks[t].pc = "join"
    /\ c \in tasks[t].set
    /\ tasks[c].pc = "done"
    /\ tasks' = [tasks EXCEPT
                   ![c].pc = "joined",
                   ![t].set = @ \ {c},
                   ![t].found = IF tasks[c].err THEN @ ELSE @ \o tasks[c].found,
                   ![t].err = @ \/ tasks[c].err,
                   ![t].pc = IF tasks[t].set = {c} THEN "done" ELSE "join"]
    /\ warns' = warns
    /\ UNCHANGED <<disk, faults, results, phase, avail, permits>>

\* Mutant of find_inner_join_next: the child's records replace the parent's
\* (`node_modules = v`) instead of being appended to them.
find_inner_join_next_overwrites(t, c) ==
    /\ phase = "find"
    /\ tasks[t].pc = "join"
    /\ c \in tasks[t].set
    /\ tasks[c].pc = "done"
    /\ tasks' = [tasks EXCEPT
                   ![c].pc = "joined",
                   ![t].set = @ \ {c},
                   ![t].found = IF tasks[c].err THEN @ ELSE tasks[c].found,
                   ![t].pc = IF tasks[t].set = {c} THEN "done" ELSE "join"]
    /\ warns' = IF tasks[c].err THEN warns + 1 ELSE warns
    /\ UNCHANGED <<disk, faults, results, phase, avail, permits>>

\* find_node_modules_inner, set.join_next() yields the finished child c;
\* after the last child the function returns Ok(node_modules).
find_inner_join_next(t, c) ==
    /\ phase = "find"
    /\ tasks[t].pc = "join"
    /\ c \in tasks[t].set
    /\ tasks[c].pc = "done"
    /\ tasks' = [tasks EXCEPT
                   ![c].pc = "joined",
                   ![t].set = @ \ {c},
                   ![t].found = IF tasks[c].err THEN @ ELSE @ \o tasks[c].found,
                   ![t].pc = IF tasks[t].set = {c} THEN "done" ELSE "join"]
    /\ warns' = IF tasks[c].err THEN warns + 1 ELSE warns
    /\ UNCHANGED <<disk, faults, results, phase, avail, permits>>

\* main: find_node_modules has returned; `?` ends the program on Err, and
\* an empty list ends it with "No node_modules were found".
main_find_returned ==
    /\ phase = "find"
    /\ tasks[<<0, Root>>].pc = "done"
    /\ node_modules' = IF tasks[<<0, Root>>].err THEN <<>>
                       ELSE tasks[<<0, Root>>].found
    /\ phase' = IF tasks[<<0, Root>>].err THEN "failed"
                ELSE IF tasks[<<0, Root>>].found = <<>> THEN "exit_empty"
                ELSE "found"
    /\ finds' = IF tasks[<<0, Root>>].err THEN finds
                ELSE Append(finds, {r.path : r \in Range(tasks[<<0, Root>>].found)})
    /\ UNCHANGED <<disk, faults, avail, permits, tasks, total_byte_size,
                   total_bytes_deleted, warns, calls, all_gone, answer, writes>>

\* ------------------------------------------------------------------- size

\* The top-level task of record i: the async block spawned for it.
RecordTask(i) == <<i, node_modules[i].path>>

\* calc_node_modules_sizes: a fresh limiter and an empty JoinSet.
calc_node_modules_sizes ==
    /\ phase = "found"
    /\ phase' = "size_spawn"
    /\ Semaphore_new
    /\ tasks' = <<>>
    /\ warns' = 0
    /\ total_byte_size' = 0
    /\ writes' = [i \in 1..Len(node_modules) |-> 0]
    /\ UNCHANGED <<disk, faults, node_modules, total_bytes_deleted, calls, all_gone,
                   answer, finds>>

\* The top-level tasks spawned so far.
RecordTasks == {t \in TaskIds : t = RecordTask(Slot(t))}

\* calc_node_modules_sizes, one turn of the spawning loop; the tasks
\* spawned so far already run.
sizes_spawn ==
    /\ phase = "size_spawn"
    /\ LET i == Cardinality(RecordTasks) + 1
       IN  IF i <= Len(node_modules)
           THEN /\ tasks' = WithTask(RecordTask(i), NewTask, RecordTask(i), NewTask)
                /\ phase' = phase
           ELSE /\ phase' = "size_join"
                /\ tasks' = tasks
    /\ UNCHANGED <<disk, faults, results, avail, permits, warns>>

SizePhase == phase \in {"size_spawn", "size_join"}

\* calc_dir_size, the permit is granted.
calc_dir_size_acquire(t) ==
    /\ SizePhase
    /\ tasks[t].pc = "acquire"
    /\ acquire_owned(t)
    /\ tasks' = [tasks EXCEPT ![t].pc = "open"]
    /\ UNCHANGED <<disk, faults, results, phase, warns>>

\* calc_dir_size, read_dir(start_path): on failure `?` drops the permit and
\* returns the error; the JoinSet is still empty.
calc_dir_size_read_dir(t) ==
    /\ SizePhase
    /\ tasks[t].pc = "open"
    /\ \/ /\ faults' = faults
          /\ tasks' = [tasks EXCEPT ![t].pc = "enum"]
          /\ UNCHANGED <<avail, permits>>
       \/ /\ MayFail
          /\ Failed("open", Path(t))
          /\ drop_permit(t)
          /\ tasks' = [tasks EXCEPT ![t].pc = "done", ![t].err = TRUE]
    /\ UNCHANGED <<disk, results, phase, warns>>

\* calc_dir_size, next_entry() returns Err: logged, the loop goes on.
calc_dir_size_entry_err(t) ==
    /\ SizePhase
    /\ tasks[t].pc = "enum"
    /\ MayFail
    /\ <<"entry", Path(t)>> \notin faults
    /\ Failed("entry", Path(t))
    /\ warns' = warns + 1
    /\ \E ends \in BOOLEAN :
          tasks' = [tasks EXCEPT ![t].pos = next_entry_after_err(t, ends)]
    /\ UNCHANGED <<disk, results, phase, avail, permits>>

\* calc_dir_size, next_entry() returns Err once more on a stream that has
\* failed before: the task is in the Err arm of the match.
calc_dir_size_entry_err_again(t) ==
    /\ SizePhase
    /\ tasks[t].pc = "enum"
    /\ <<"entry", Path(t)>> \in faults
    /\ tasks' = [tasks EXCEPT ![t].pc = "entry_err"]
    /\ UNCHANGED <<disk, faults, results, phase, avail, permits, warns>>

\* calc_dir_size, the Err arm: warn!, then `continue` takes the task back
\* to next_entry().
calc_dir_size_entry_err_continue(t) ==
    /\ SizePhase
    /\ tasks[t].pc = "entry_err"
    /\ warns' = IF warns < MaxWarns THEN warns + 1 ELSE warns
    /\ tasks' = [tasks EXCEPT ![t].pc = "enum"]
    /\ UNCHANGED <<disk, faults, results, phase, avail, permits>>

\* Mutant of metadata_len_or_0: the length is added after the type check,
\* for files only.
metadata_len_files_only(e, ok) ==
    IF ok /\ kind[e] = "file" THEN MetadataLen(e) ELSE 0

\* dir_entry.metadata().await.map_or(0, |metadata| metadata.len())
metadata_len_or_0(e, ok) == IF ok THEN MetadataLen(e) ELSE 0

\* Mutant of size_visit: subdirectories are not descended into.
size_visit_no_descent(e) == "skip"

\* The visit rule of the size walk for an entry whose file type was read.
size_visit(e) ==
    IF ~is_dir(e) \/ is_symlink(e) THEN "skip" ELSE "descend"

\* calc_dir_size, one turn of the loop on Ok(Some(dir_entry)): the entry's
\* length is added, then its type is read.
calc_dir_size_next_entry(t) ==
    /\ SizePhase
    /\ tasks[t].pc = "enum"
    /\ tasks[t].pos <= Len(ReadDirEntries(Path(t)))
    /\ \E meta_ok, type_ok \in BOOLEAN :
         LET e == ReadDirEntries(Path(t))[tasks[t].pos]
             failed == {<<"meta", e>> : x \in {meta_ok} \ {TRUE}}
                       \cup {<<"type", e>> : x \in {type_ok} \ {TRUE}}
             self == [tasks[t] EXCEPT !.pos = @ + 1,
                                      !.size = @ + metadata_len_or_0(e, meta_ok)]
         IN  /\ Cardinality(faults) + Cardinality(failed) <= MaxFaults
             /\ faults' = faults \cup failed
             /\ IF ~type_ok
                THEN /\ tasks' = [tasks EXCEPT ![t] = self]
                     /\ warns' = warns + 1
                ELSE /\ warns' = warns
                     /\ tasks' =
                          CASE size_visit(e) = "skip" -> [tasks EXCEPT ![t] = self]
                            [] size_visit(e) = "descend" ->
                                 WithTask(t, [self EXCEPT !.set = @ \cup {<<Slot(t), e>>}],
                                          <<Slot(t), e>>, NewTask)
    /\ UNCHANGED <<disk, results, phase, avail, permits>>

\* Mutant of calc_dir_size_end_of_dir: the permit's scope encloses the join
\* loop, so the permit is still held while the children are awaited.
calc_dir_size_end_of_dir_keeps_permit(t) ==
    /\ SizePhase
    /\ tasks[t].pc = "enum"
    /\ tasks[t].pos > Len(ReadDirEntries(Path(t)))
    /\ IF tasks[t].set = {}
       THEN /\ drop_permit(t)
            /\ tasks' = [tasks EXCEPT ![t].pc = "done"]
       ELSE /\ UNCHANGED <<avail, permits>>
            /\ tasks' = [tasks EXCEPT ![t].pc = "join"]
    /\ UNCHANGED <<disk, faults, results, phase, warns>>

\* calc_dir_size, Ok(None): the scope ends and the permit is dropped; with
\* no child spawned the join loop ends at once.
calc_dir_size_end_of_dir(t) ==
    /\ SizePhase
    /\ tasks[t].pc = "enum"
    /\ tasks[t].pos > Len(ReadDirEntries(Path(t)))
    /\ drop_permit(t)
    /\ tasks' = [tasks EXCEPT ![t].pc = IF tasks[t].set = {} THEN "done" ELSE "join"]
    /\ UNCHANGED <<disk, faults, results, phase, warns>>

\* Mutant of calc_dir_size_join_next: the child's error is passed on with `?`.
calc_dir_size_join_next_propagates(t, c) ==
    /\ SizePhase
    /\ tasks[t].pc = "join"
    /\ c \in tasks[t].set
    /\ tasks[c].pc = "done"
    /\ tasks' = [tasks EXCEPT
                   ![c].pc = "joined",
                   ![t].set = @ \ {c},
                   ![t].size = IF tasks[c].err THEN @ ELSE @ + tasks[c].size,
                   ![t].err = @ \/ tasks[c].err,
                   ![t].pc = IF tasks[t].set = {c} THEN "done" ELSE "join"]
    /\ warns' = warns
    /\ UNCHANGED <<disk, faults, results, phase, avail, permits>>

\* calc_dir_size, set.join_next() yields the finished child c; after the
\* last child the function returns Ok(size).
calc_dir_size_join_next(t, c) ==
    /\ SizePhase
    /\ tasks[t].pc = "join"
    /\ c \in tasks[t].set
    /\ tasks[c].pc = "done"
    /\ tasks' = [tasks EXCEPT
                   ![c].pc = "joined",
                   ![t].set = @ \ {c},
                   ![t].size = IF tasks[c].err THEN @ ELSE @ + tasks[c].size,
                   ![t].pc = IF tasks[t].set = {c} THEN "done" ELSE "join"]
    /\ warns' = IF tasks[c].err THEN warns + 1 ELSE warns
    /\ UNCHANGED <<disk, faults, results, phase, avail, permits>>

\* The Result<u64> calc_dir_size returned in the finished task c.
calc_dir_size_result(c) == IF tasks[c].err THEN None ELSE Some(tasks[c].size)

\* The output (i, size) of the async block of record i:
\* calc_dir_size(path, sem_child).await.unwrap_or(0)
size_task_output(c) == <<Slot(c), unwrap_or(calc_dir_size_result(c), 0)>>

\* Mutant of sizes_join_next: a failed calc_dir_size is logged and its
\* record is left unsized, as the other join loops treat Ok(Err(e)).
sizes_join_next_skips_err(c) ==
    /\ phase = "size_join"
    /\ c \in RecordTasks
    /\ tasks[c].pc = "done"
    /\ IF tasks[c].err
       THEN UNCHANGED <<total_byte_size, node_modules, writes>>
       ELSE /\ total_byte_size' = total_byte_size + tasks[c].size
            /\ node_modules' = [node_modules EXCEPT ![Slot(c)].size = Some(tasks[c].size)]
            /\ writes' = [writes EXCEPT ![Slot(c)] = @ + 1]
    /\ tasks' = [tasks EXCEPT ![c].pc = "joined"]
    /\ UNCHANGED <<disk, faults, phase, avail, permits, warns,
                   total_bytes_deleted, calls, all_gone, answer, finds>>

\* Mutant of sizes_join_next: the total is assigned (`=`) where it should
\* be added to (`+=`).
sizes_join_next_assigns_total(c) ==
    /\ phase = "size_join"
    /\ c \in RecordTasks
    /\ tasks[c].pc = "done"
    /\ LET out == size_task_output(c)
       IN  /\ total_byte_size' = out[2]
           /\ node_modules' = [node_modules EXCEPT ![out[1]].size = Some(out[2])]
           /\ writes' = [writes EXCEPT ![out[1]] = @ + 1]
    /\ tasks' = [tasks EXCEPT ![c].pc = "joined"]
    /\ UNCHANGED <<disk, faults, phase, avail, permits, warns,
                   total_bytes_deleted, calls, all_gone, answer, finds>>

\* Mutant of sizes_join_next: the size goes to the slot given by the order
\* of completion, not to the index the task carries.
sizes_join_next_by_completion(c) ==
    /\ phase = "size_join"
    /\ c \in RecordTasks
    /\ tasks[c].pc = "done"
    /\ LET out == size_task_output(c)
           k == Cardinality({t \in RecordTasks : tasks[t].pc = "joined"}) + 1
       IN  /\ total_byte_size' = total_byte_size + out[2]
           /\ node_modules' = [node_modules EXCEPT ![k].size = Some(out[2])]
           /\ writes' = [writes EXCEPT ![k] = @ + 1]
    /\ tasks' = [tasks EXCEPT ![c].pc = "joined"]
    /\ UNCHANGED <<disk, faults, phase, avail, permits, warns,
                   total_bytes_deleted, calls, all_gone, answer, finds>>

\* calc_node_modules_sizes, set.join_next() yields the output of a finished
\* top-level task.
sizes_join_next(c) ==
    /\ phase = "size_join"
    /\ c \in RecordTasks
    /\ tasks[c].pc = "done"
    /\ LET out == size_task_output(c)
       IN  /\ total_byte_size' = total_byte_size + out[2]
           /\ node_modules' = [node_modules EXCEPT ![out[1]].size = Some(out[2])]
           /\ writes' = [writes EXCEPT ![out[1]] = @ + 1]
    /\ tasks' = [tasks EXCEPT ![c].pc = "joined"]
    /\ UNCHANGED <<disk, faults, phase, avail, permits, warns,
                   total_bytes_deleted, calls, all_gone, answer, finds>>

\* The key node_modules.sort_by compares: Option orders None before Some.
size_key(r) == IF r.size = None THEN -1 ELSE r.size[1]

\* node_modules.sort_by(|a, b| a.size.cmp(&b.size)): a stable sort.
RECURSIVE sort_by_size(_)
sort_by_size(s) ==
    IF s = <<>> THEN <<>>
    ELSE LET rest == sort_by_size(Tail(s))
             k == Cardinality({i \in 1..Len(rest) : size_key(rest[i]) < size_key(Head(s))})
         IN  SubSeq(rest, 1, k) \o <<Head(s)>> \o SubSeq(rest, k + 1, Len(rest))

\* calc_node_modules_sizes returns Ok(total_size_bytes) once the JoinSet is
\* empty; main sorts the records and prints them.
main_sizes_returned ==
    /\ phase = "size_join"
    /\ \A t \in RecordTasks : tasks[t].pc = "joined"
    /\ node_modules' = sort_by_size(node_modules)
    /\ phase' = "confirm"
    /\ UNCHANGED <<disk, faults, avail, permits, tasks, warns, total_byte_size,
                   total_bytes_deleted, calls, all_gone, answer, finds, writes>>

\* ----------------------------------------------------------------- delete

\* nuke_node_modules: an empty JoinSet and a fresh limiter.
nuke_node_modules ==
    /\ phase' = "nuke_spawn"
    /\ Semaphore_new
    /\ tasks' = <<>>
    /\ warns' = 0
    /\ total_bytes_deleted' = 0
    /\ all_gone' = \A i \in 1..Len(node_modules) : ~Exists(node_modules[i].path)
    /\ UNCHANGED <<disk, faults, node_modules, total_byte_size, calls, finds, writes>>

\* nuke_node_modules, one turn of the spawning loop: the task of the next
\* record carries the record's path and bytes_to_delete.
nuke_spawn ==
    /\ phase = "nuke_spawn"
    /\ LET i == Cardinality(TaskIds) + 1
       IN  IF i <= Len(node_modules)
           THEN /\ tasks' = WithTask(RecordTask(i), NewTask, RecordTask(i),
                                     [NewTask EXCEPT
                                        !.size = unwrap_or(node_modules[i].size, 0)])
                /\ phase' = phase
           ELSE /\ phase' = "nuke_join"
                /\ tasks' = tasks
    /\ UNCHANGED <<disk, faults, results, avail, permits, warns>>

NukePhase == phase \in {"nuke_spawn", "nuke_join"}

\* The spawned block of nuke_node_modules, the permit is granted.
nuke_task_acquire(t) ==
    /\ NukePhase
    /\ tasks[t].pc = "acquire"
    /\ acquire_owned(t)
    /\ tasks' = [tasks EXCEPT ![t].pc = "remove"]
    /\ UNCHANGED <<disk, faults, results, phase, warns>>

\* Mutant of remove_dir_all_can_succeed: a missing path counts as removed,
\* as `rm -rf` would have it.
remove_dir_all_ignores_missing(path) == TRUE

\* tokio::fs::remove_dir_all(path) can succeed only on a path that is there.
remove_dir_all_can_succeed(path) == Exists(path)

\* Mutant of nuke_task_remove: the permit is released by hand after a
\* successful removal only, so a failed removal keeps it.
nuke_task_remove_leaks_on_err(t) ==
    /\ NukePhase
    /\ tasks[t].pc = "remove"
    /\ \/ /\ remove_dir_all_can_succeed(Path(t))
          /\ faults' = faults
          /\ removed' = removed \cup {Path(t)}
          /\ tasks' = [tasks EXCEPT ![t].pc = "done"]
          /\ drop_permit(t)
       \/ /\ ~remove_dir_all_can_succeed(Path(t))
          /\ faults' = faults
          /\ removed' = removed
          /\ tasks' = [tasks EXCEPT ![t].pc = "done", ![t].err = TRUE]
          /\ UNCHANGED <<avail, permits>>
       \/ /\ remove_dir_all_can_succeed(Path(t))
          /\ MayFail
          /\ Failed("remove", Path(t))
          /\ removed' = removed
          /\ tasks' = [tasks EXCEPT ![t].pc = "done", ![t].err = TRUE]
          /\ UNCHANGED <<avail, permits>>
    /\ UNCHANGED <<kind, cap, results, phase, warns>>

\* The spawned block of nuke_node_modules, remove_dir_all(path): Ok gives
\* Ok(bytes_to_delete), Err bails; the permit is dropped either way.
nuke_task_remove(t) ==
    /\ NukePhase
    /\ tasks[t].pc = "remove"
    /\ \/ /\ remove_dir_all_can_succeed(Path(t))
          /\ faults' = faults
          /\ removed' = removed \cup {Path(t)}
          /\ tasks' = [tasks EXCEPT ![t].pc = "done"]
       \/ /\ ~remove_dir_all_can_succeed(Path(t))
          /\ faults' = faults
          /\ removed' = removed
          /\ tasks' = [tasks EXCEPT ![t].pc = "done", ![t].err = TRUE]
       \/ /\ remove_dir_all_can_succeed(Path(t))
          /\ MayFail
          /\ Failed("remove", Path(t))
          /\ removed' = removed
          /\ tasks' = [tasks EXCEPT ![t].pc = "done", ![t].err = TRUE]
    /\ drop_permit(t)
    /\ UNCHANGED <<kind, cap, results, phase, warns>>

\* Mutant of nuke_join_next: the bytes of a record are counted whether or
\* not its removal succeeded.
nuke_join_next_counts_failed(c) ==
    /\ phase = "nuke_join"
    /\ tasks[c].pc = "done"
    /\ warns' = IF tasks[c].err THEN warns + 1 ELSE warns
    /\ total_bytes_deleted' = total_bytes_deleted + tasks[c].size
    /\ tasks' = [tasks EXCEPT ![c].pc = "joined"]
    /\ UNCHANGED <<disk, faults, phase, avail, permits, node_modules,
                   total_byte_size, calls, all_gone, answer, finds, writes>>

\* nuke_node_modules, set.join_next() yields the result of a finished task.
nuke_join_next(c) ==
    /\ phase = "nuke_join"
    /\ tasks[c].pc = "done"
    /\ IF tasks[c].err
       THEN /\ warns' = warns + 1
            /\ total_bytes_deleted' = total_bytes_deleted
       ELSE /\ warns' = warns
            /\ total_bytes_deleted' = total_bytes_deleted + tasks[c].size
    /\ tasks' = [tasks EXCEPT ![c].pc = "joined"]
    /\ UNCHANGED <<disk, faults, phase, avail, permits, node_modules,
                   total_byte_size, calls, all_gone, answer, finds, writes>>

\* nuke_node_modules returns Ok(total_bytes_deleted) once the JoinSet is empty.
nuke_returned ==
    /\ phase = "nuke_join"
    /\ \A t \in TaskIds : tasks[t].pc = "joined"
    /\ phase' = "nuked"
    /\ calls' = calls + 1
    /\ UNCHANGED <<disk, faults, avail, permits, tasks, warns, node_modules,
                   total_byte_size, total_bytes_deleted, all_gone, answer, finds,
                   writes>>

\* ------------------------------------------------------------------- main

\* main: the answer is Ok(true), from --yes or from the prompt.
main_confirm_yes ==
    /\ phase = "confirm"
    /\ answer' = "yes"
    /\ nuke_node_modules

\* Mutant of main_confirm_no: the deletion runs whatever the answer is.
main_confirm_no_nukes ==
    /\ phase = "confirm"
    /\ answer' = "no"
    /\ nuke_node_modules

\* main: the prompt is answered no.
main_confirm_no ==
    /\ phase = "confirm"
    /\ phase' = "declined"
    /\ answer' = "no"
    /\ UNCHANGED <<disk, faults, node_modules, total_byte_size, total_bytes_deleted,
                   calls, all_gone, finds, writes, avail, permits, tasks, warns>>

\* main: the prompt fails and main bails.
main_confirm_err ==
    /\ phase = "confirm"
    /\ phase' = "prompt_failed"
    /\ answer' = "err"
    /\ UNCHANGED <<disk, faults, node_modules, total_byte_size, total_bytes_deleted,
                   calls, all_gone, finds, writes, avail, permits, tasks, warns>>

\* A caller of the library function nuke_node_modules calls it, and again
\* on the same list once it has returned.
caller_nuke ==
    /\ phase \in {"caller", "nuked"}
    /\ calls < MaxCalls
    /\ answer' = answer
    /\ nuke_node_modules

\* ------------------------------------------------------------ specification

Init ==
    /\ kind \in Disks
    /\ cap \in 1..MaxCap
    /\ faults = {}
    /\ removed = {}
    /\ phase = "start"
    /\ avail = 0
    /\ permits = {}
    /\ tasks = <<>>
    /\ node_modules = <<>>
    /\ total_byte_size = 0
    /\ total_bytes_deleted = 0
    /\ warns = 0
    /\ calls = 0
    /\ all_gone = FALSE
    /\ answer = "none"
    /\ finds = <<>>
    /\ writes = <<>>

Find ==
    \/ find_node_modules
    \/ \E t \in TaskIds : find_inner_acquire(t)
    \/ \E t \in TaskIds : find_inner_read_dir(t)
    \/ \E t \in TaskIds : find_inner_entry_err(t)
    \/ \E t \in TaskIds : find_inner_next_entry(t)
    \/ \E t \in TaskIds : find_inner_end_of_dir(t)
    \/ \E t, c \in TaskIds : find_inner_join_next(t, c)
    \/ main_find_returned

Size ==
    \/ calc_node_modules_sizes
    \/ sizes_spawn
    \/ \E t \in TaskIds : calc_dir_size_acquire(t)
    \/ \E t \in TaskIds : calc_dir_size_read_dir(t)
    \/ \E t \in TaskIds : calc_dir_size_entry_err(t)
    \/ \E t \in TaskIds : calc_dir_size_next_entry(t)
    \/ \E t \in TaskIds : calc_dir_size_end_of_dir(t)
    \/ \E t, c \in TaskIds : calc_dir_size_join_next(t, c)
    \/ \E c \in TaskIds : sizes_join_next(c)
    \/ main_sizes_returned

Nuke ==
    \/ nuke_spawn
    \/ \E t \in TaskIds : nuke_task_acquire(t)
    \/ \E t \in TaskIds : nuke_task_remove(t)
    \/ \E c \in TaskIds : nuke_join_next(c)
    \/ nuke_returned

\* The program: main of src/src/main.rs.
Next ==
    \/ Find
    \/ Size
    \/ main_confirm_yes
    \/ main_confirm_no
    \/ main_confirm_err
    \/ Nuke

Spec == Init /\ [][Next]_vars

\* The program on a disk where a directory stream that has failed can fail
\* again, any number of times.  In Spec the failures are bounded: a stream
\* fails at most once and at most MaxFaults calls fail.
NextLive ==
    \/ Next
    \/ \E t \in TaskIds : find_inner_entry_err_again(t)
    \/ \E t \in TaskIds : find_inner_entry_err_continue(t)
    \/ \E t \in TaskIds : calc_dir_size_entry_err_again(t)
    \/ \E t \in TaskIds : calc_dir_size_entry_err_continue(t)

\* The tokio runtime: a step that can be taken (a task that is ready, a
\* permit that is free for a waiting task) is eventually taken.
SpecLive == Init /\ [][NextLive]_vars /\ WF_vars(NextLive)

\* The records a caller may hand to nuke_node_modules: the directories
\* named node_modules, sized or not.
CallerRecords ==
    UNION {{[path |-> n, size |-> None], [path |-> n, size |-> Some(MetadataLen(n))]} :
              n \in {m \in DirEntries : file_name(m) = NODE_MODULES}}

\* The sequences over S of length at most k.
RECURSIVE SeqsUpTo(_, _)
SeqsUpTo(S, k) ==
    IF k = 0 THEN {<<>>}
    ELSE LET P == SeqsUpTo(S, k - 1)
         IN  P \cup {Append(p, s) : p \in P, s \in S}

\* nuke_node_modules as a library function: any list of records over a
\* disk of directories.
InitNuke ==
    /\ kind = [n \in DirEntries |-> "dir"]
    /\ cap \in 1..MaxCap
    /\ faults = {}
    /\ removed = {}
    /\ phase = "caller"
    /\ avail = 0
    /\ permits = {}
    /\ tasks = <<>>
    /\ node_modules \in SeqsUpTo(CallerRecords, MaxRecords)
    /\ total_byte_size = 0
    /\ total_bytes_deleted = 0
    /\ warns = 0
    /\ calls = 0
    /\ all_gone = FALSE
    /\ answer = "none"
    /\ finds = <<>>
    /\ writes = <<>>

NextNuke ==
    \/ caller_nuke
    \/ Nuke

SpecNuke == InitNuke /\ [][NextNuke]_vars

\* A caller of the library function find_node_modules calls it again on
\* the same start path once it has returned.
caller_find ==
    /\ phase \in {"found", "exit_empty", "failed"}
    /\ Len(finds) < MaxCalls
    /\ phase' = "find"
    /\ Semaphore_new
    /\ tasks' = (<<0, Root>> :> NewTask)
    /\ warns' = 0
    /\ UNCHANGED <<disk, faults, results>>

\* find_node_modules as a library function, called repeatedly on a disk
\* that no one modifies.
NextFind ==
    \/ Find
    \/ caller_find

SpecFind == Init /\ [][NextFind]_vars

\* ------------------------------------------------------------------ claims

\* Tasks suspended in acquire_owned().await, and tasks that have a directory
\* open (or are about to open it) or a removal to issue.
Waiting == {t \in TaskIds : tasks[t].pc = "acquire"}
Working == {t \in TaskIds : tasks[t].pc \in {"open", "enum", "entry_err", "remove"}}
Finished(t) == tasks[t].pc \in {"done", "joined"}

\* A top-level call has returned to main or to the caller.
FindReturned == phase \in {"found", "exit_empty", "failed"}
SizesReturned == phase \in {"confirm", "declined", "prompt_failed"}
NukeReturned == phase = "nuked"

\* The sum of the lengths of the entries in S.
RECURSIVE SumLenFrom(_, _)
SumLenFrom(S, n) ==
    IF n > MaxNode THEN 0
    ELSE (IF n \in S THEN MetadataLen(n) ELSE 0) + SumLenFrom(S, n + 1)

SumLen(S) == SumLenFrom(S, 2)

\* The entries at any depth below path p, and those of them that are files.
EntriesBelow(p) == {n \in DirEntries : p \in Ancestors(n) /\ OnDisk(kind, n)}
FilesBelow(p) == {n \in EntriesBelow(p) : kind[n] = "file"}

\* The directories named node_modules that have no ancestor named
\* node_modules below the start path.
OutermostNodeModules ==
    {n \in DirEntries :
        /\ OnDisk(kind, n)
        /\ kind[n] = "dir"
        /\ file_name(n) = NODE_MODULES
        /\ \A a \in Ancestors(n) \ {Root} : file_name(a) # NODE_MODULES}

\* The directories read_dir has failed to open.
Unreadable == {n \in Nodes : <<"open", n>> \in faults}

\* The records of the list are exactly the paths in S, one record each.
OneRecordEach(list, S) ==
    /\ Len(list) = Cardinality(S)
    /\ {list[i].path : i \in 1..Len(list)} = S

\* C1: in every state of a find, size or delete operation the permits held
\* by its tasks number at most cap, and the limiter never hands out a permit
\* it does not have, whatever the tree and however many tasks are waiting.
C1_PermitsAtMostCap ==
    /\ Cardinality(permits) <= cap
    /\ avail >= 0
    /\ avail + Cardinality(permits) <= cap

\* C1 witness: every permit is held while more than cap tasks wait for one.
C1_Witness ==
    /\ Cardinality(permits) = cap
    /\ Cardinality(Waiting) > cap

\* C2: a task has a directory open, or a removal to issue, only while it
\* holds a permit; hence at most cap listings or removals are in progress.
C2_WorkOnlyUnderPermit ==
    /\ \A t \in Working : t \in permits
    /\ Cardinality(Working) <= cap

\* C2 witness: two tasks list their directories at the same time, each
\* under its own permit.
C2_Witness ==
    Cardinality({t \in TaskIds : tasks[t].pc = "enum"}) >= 2

\* C3: with no read error, find returns exactly one record for each
\* directory named node_modules that has no node_modules ancestor below the
\* start path, and no other record.
C3_FindReturnsOutermost ==
    (phase \in {"found", "exit_empty"} /\ faults = {})
        => OneRecordEach(node_modules, OutermostNodeModules)

\* C3 witness: two node_modules on separate branches are returned (2 and 5)
\* while the node_modules 4 nested in 2 is on the disk.
C3_Witness ==
    /\ phase = "found"
    /\ faults = {}
    /\ Len(node_modules) = 2
    /\ kind[4] = "dir"

\* C4 as stated: with no read error, the size calc_dir_size computes for a
\* path is the sum of the lengths of the files at any depth below it.
C4_SizeIsSumOfFiles ==
    (SizePhase /\ faults = {}) =>
        \A t \in TaskIds :
            Finished(t) => tasks[t].size = SumLen(FilesBelow(Path(t)))

\* C4 amended: with no read error, the size calc_dir_size computes for a
\* path is the sum of the metadata lengths of all entries (files,
\* directories and symlinks) at any depth below it.
C4_SizeIsSumOfEntries ==
    (SizePhase /\ faults = {}) =>
        \A t \in TaskIds :
            Finished(t) => /\ ~tasks[t].err
                           /\ tasks[t].size = SumLen(EntriesBelow(Path(t)))

\* C4 witness: the size of node_modules 2 is computed, with the
\* directory 4 in it and the file 6 two levels down.
C4_Witness ==
    /\ SizePhase
    /\ faults = {}
    /\ kind[4] = "dir"
    /\ kind[6] = "file"
    /\ <<1, 2>> \in TaskIds
    /\ Finished(<<1, 2>>)
    /\ {4, 6} \subseteq EntriesBelow(2)
    /\ tasks[<<1, 2>>].size = SumLen(EntriesBelow(2))

\* The records of the list whose removal succeeded in the call that has
\* just returned.
RemovedRecords == {i \in 1..Len(node_modules) : ~tasks[RecordTask(i)].err}

RECURSIVE SumSizes(_)
SumSizes(I) ==
    IF I = {} THEN 0
    ELSE LET i == CHOOSE j \in I : TRUE
         IN  unwrap_or(node_modules[i].size, 0) + SumSizes(I \ {i})

\* C5: nuke_node_modules returns the sum of size (0 when unset) over
\* exactly the records whose removal succeeded; the directory of such a
\* record is gone from the disk, and when all removals succeed the sum is
\* that of all recorded sizes.
C5_TotalIsSumOfRemoved ==
    NukeReturned =>
        /\ total_bytes_deleted = SumSizes(RemovedRecords)
        /\ \A i \in RemovedRecords : ~Exists(node_modules[i].path)
        /\ warns = Len(node_modules) - Cardinality(RemovedRecords)

\* C5 witness: of two sized records one was removed and one was not.
C5_Witness ==
    /\ NukeReturned
    /\ Len(node_modules) = 2
    /\ Cardinality(RemovedRecords) = 1
    /\ total_bytes_deleted > 0
    /\ \A i \in 1..2 : node_modules[i].size # None

\* C6: when every directory of the list is already gone, a further call on
\* the same list returns 0 and logs one deletion error per record.
C6_SecondCallReturnsZero ==
    (NukeReturned /\ calls >= 2 /\ all_gone)
        => /\ total_bytes_deleted = 0
           /\ warns = Len(node_modules)
           /\ RemovedRecords = {}

\* C6 witness: the second call on a list of two sized records, both removed
\* by the first call, has returned.
C6_Witness ==
    /\ NukeReturned
    /\ calls = 2
    /\ all_gone
    /\ Len(node_modules) = 2
    /\ node_modules[1].path # node_modules[2].path
    /\ \A i \in 1..2 : node_modules[i].size # None
    /\ warns = 2

\* C7: find_node_modules fails if and only if the start directory itself
\* could not be opened.
C7_FindFailsIffStartUnreadable ==
    /\ phase = "failed" => Root \in Unreadable
    /\ phase \in {"found", "exit_empty"} => Root \notin Unreadable
    /\ (phase = "find" /\ Finished(<<0, Root>>))
          => (tasks[<<0, Root>>].err <=> Root \in Unreadable)

\* C7 witness: find has returned its records although a directory below
\* the start path could not be opened.
C7_Witness ==
    /\ phase \in {"found", "exit_empty"}
    /\ Unreadable # {}

\* The entries that remain when the subtrees of the unreadable directories
\* are emptied.
Reachable(n) == Ancestors(n) \cap Unreadable = {}

\* C8: when the only failures are directories that cannot be opened, a
\* task fails only if its own directory is unreadable, and the result of
\* find and of a size computation is the result on the tree with the
\* subtrees of the unreadable directories emptied.
C8_FailedChildIsolated ==
    (\A f \in faults : f[1] = "open") =>
        /\ phase \in {"found", "exit_empty"}
              => OneRecordEach(node_modules,
                               {n \in OutermostNodeModules : Reachable(n)})
        /\ (phase = "find" \/ SizePhase)
              => \A t \in TaskIds :
                    Finished(t) => (tasks[t].err <=> Path(t) \in Unreadable)
        /\ SizePhase
              => \A t \in TaskIds :
                    (Finished(t) /\ ~tasks[t].err)
                        => tasks[t].size =
                             SumLen({n \in EntriesBelow(Path(t)) : Reachable(n)})

\* C8 witness: the size of node_modules 2 is computed although its
\* subdirectory 4, which holds entry 6, could not be opened.
C8_Witness ==
    /\ SizePhase
    /\ Unreadable = {4}
    /\ <<1, 2>> \in TaskIds
    /\ node_modules[1].path = 2
    /\ Finished(<<1, 2>>)
    /\ tasks[<<1, 4>>].pc = "joined"
    /\ tasks[<<1, 2>>].size = MetadataLen(4)

\* The task that spawned t, and whether t was spawned by a task at all: the
\* walk of the start path runs in the caller of find, and the task of a
\* record is spawned by the top-level call, which joins it itself.
ParentTask(t) == <<Slot(t), Parent(Path(t))>>
Spawned(t) == Path(t) # Root /\ ParentTask(t) \in TaskIds
ChildrenOf(t) == {c \in TaskIds : Spawned(c) /\ ParentTask(c) = t}

\* C9: a spawned task that has not been joined sits in the JoinSet of the
\* task that spawned it and in no other, a joined one in none; a task
\* returns only with an empty JoinSet and all its children joined; and when
\* a top-level call has returned, every task of it has finished and was
\* joined, and no permit is held.
C9_StructuredJoin ==
    /\ \A p \in TaskIds : \A c \in tasks[p].set :
          /\ c \in TaskIds
          /\ Spawned(c)
          /\ ParentTask(c) = p
          /\ tasks[c].pc # "joined"
    /\ \A t \in TaskIds :
          (Spawned(t) /\ tasks[t].pc # "joined") => t \in tasks[ParentTask(t)].set
    /\ \A t \in TaskIds :
          Finished(t) => /\ tasks[t].set = {}
                         /\ \A c \in ChildrenOf(t) : tasks[c].pc = "joined"
    /\ (FindReturned \/ SizesReturned \/ NukeReturned)
          => /\ permits = {}
             /\ avail = cap
             /\ \A t \in TaskIds :
                   \/ tasks[t].pc = "joined"
                   \/ t = <<0, Root>> /\ tasks[t].pc = "done"

\* C9 witness: the size pass has returned after a walk two levels deep.
C9_Witness ==
    /\ SizesReturned
    /\ \E t \in TaskIds : Path(t) = 6 /\ tasks[t].pc = "joined"

\* C10 as stated: calc_dir_size never returns an error.
C10_CalcDirSizeNeverErr ==
    \A t \in TaskIds : (SizePhase /\ Finished(t)) => ~tasks[t].err

\* C10 amended: calc_dir_size returns an error exactly when the path passed
\* to it cannot be opened; the task of a record turns that error into 0,
\* so every record joined gets a size and an unreadable record gets 0.
C10_SizeTaskNeverFails ==
    SizePhase =>
        \A t \in TaskIds :
            /\ Finished(t) => (tasks[t].err <=> Path(t) \in Unreadable)
            /\ (t \in RecordTasks /\ tasks[t].pc = "joined")
                  => /\ node_modules[Slot(t)].size # None
                     /\ tasks[t].err => node_modules[Slot(t)].size = Some(0)

\* C10 witness: the node_modules of a record could not be opened and the
\* record was given size 0.
C10_Witness ==
    /\ SizePhase
    /\ \E t \in RecordTasks :
          /\ tasks[t].pc = "joined"
          /\ tasks[t].err
          /\ node_modules[Slot(t)].size = Some(0)

\* C11: with no failed call, every call of find_node_modules on the same
\* disk returns the same set of paths, and that set depends on the disk
\* alone, not on the cap or on the order in which the tasks ran.
C11_FindSameSetEveryCall ==
    faults = {} =>
        \A i \in 1..Len(finds) :
            /\ finds[i] = OutermostNodeModules
            /\ \A j \in 1..Len(finds) : finds[i] = finds[j]

\* C11 witness: find has returned twice on a disk with two outermost
\* node_modules, with the same two paths both times.
C11_Witness ==
    /\ faults = {}
    /\ Len(finds) = 2
    /\ finds[1] = finds[2]
    /\ Cardinality(finds[2]) = 2

\* C12: in main, nuke_node_modules runs only after find has returned
\* records, the size pass has sized every one of them and the answer is
\* yes; nothing is removed before that, nor when find fails or finds
\* nothing, the answer is no, or the prompt fails.
C12_NukeOnlyAfterYes ==
    /\ (NukePhase \/ NukeReturned)
          => /\ answer = "yes"
             /\ Len(finds) = 1
             /\ node_modules # <<>>
             /\ \A i \in 1..Len(node_modules) :
                   node_modules[i].size # None /\ writes[i] = 1
    /\ answer # "yes" => removed = {} /\ calls = 0
    /\ phase \in {"failed", "exit_empty", "declined", "prompt_failed"}
          => answer # "yes"
    /\ phase \in {"failed", "exit_empty"} => answer = "none"

\* C12 witness: the answer was yes and the deletion has removed a
\* directory that find had returned and the size pass had sized.
C12_Witness ==
    /\ NukeReturned
    /\ answer = "yes"
    /\ removed # {}
    /\ total_bytes_deleted > 0

\* C13: a task that waits for its children holds no permit: the permit
\* of a directory level is back before the first join, and permits are held
\* only by tasks that have a directory open or a removal to issue.
C13_NoPermitWhileJoining ==
    /\ \A t \in TaskIds : tasks[t].pc = "join" => t \notin permits
    /\ permits \subseteq Working

\* C13 witness: with a cap of 1, a child lists its directory under the only
\* permit while its parent waits to join it.
C13_Witness ==
    /\ cap = 1
    /\ \E t \in TaskIds :
          /\ tasks[t].pc = "join"
          /\ \E c \in tasks[t].set : c \in permits /\ tasks[c].pc = "enum"

\* C14: a task that has returned, with a result or with an error, holds
\* no permit; no permit is ever lost; and when find, the size pass or the
\* deletion has returned, all cap permits of its limiter are available.
C14_PermitsAllBack ==
    /\ \A t \in TaskIds : Finished(t) => t \notin permits
    /\ phase # "start" => avail + Cardinality(permits) = cap
    /\ (FindReturned \/ SizesReturned \/ NukeReturned) => avail = cap

\* C14 witness: the deletion has returned with all permits back although a
\* removal failed.
C14_Witness ==
    /\ NukeReturned
    /\ avail = cap
    /\ \E n \in Nodes : <<"remove", n>> \in faults
    /\ \E t \in TaskIds : tasks[t].err

\* C15: during the size pass the size of record i is assigned at most
\* once, exactly when the task spawned for record i is joined, and with the
\* result computed for record i's own path; when the pass has returned,
\* every record's size has been assigned exactly once.
C15_SlotWrittenOnce ==
    /\ SizePhase =>
          \A i \in 1..Len(node_modules) :
              /\ writes[i] <= 1
              /\ writes[i] = 1 <=> node_modules[i].size # None
              /\ writes[i] = 1 <=>
                    (RecordTask(i) \in TaskIds /\ tasks[RecordTask(i)].pc = "joined")
              /\ writes[i] = 1 =>
                    /\ node_modules[i].size =
                          Some(unwrap_or(calc_dir_size_result(RecordTask(i)), 0))
                    /\ faults = {} =>
                          node_modules[i].size =
                            Some(SumLen(EntriesBelow(node_modules[i].path)))
    /\ SizesReturned =>
          \A i \in 1..Len(node_modules) :
              /\ writes[i] = 1
              /\ node_modules[i].size # None
              /\ faults = {} =>
                    node_modules[i].size =
                      Some(SumLen(EntriesBelow(node_modules[i].path)))

\* C15 witness: the task of the second record was joined before that of
\* the first, and its size went to the second slot.
C15_Witness ==
    /\ phase = "size_join"
    /\ Len(node_modules) = 2
    /\ writes = <<0, 1>>
    /\ node_modules[1].size = None
    /\ node_modules[2].size # None
    /\ tasks[RecordTask(1)].pc = "done"

\* C16: the total of calc_node_modules_sizes is at every moment the sum of
\* the sizes stored in the records so far (an unset size counting as 0),
\* and so is the total it returns, in whatever order the tasks are joined.
C16_TotalIsSumOfStored ==
    total_byte_size = SumSizes(1..Len(node_modules))

\* C16 witness: the size pass has returned the total of two records, one
\* of them holding a directory and a file below it.
C16_Witness ==
    /\ phase = "confirm"
    /\ Len(node_modules) = 2
    /\ \A i \in 1..2 : node_modules[i].size # None
    /\ {4, 6} \subseteq EntriesBelow(2)
    /\ total_byte_size >= MetadataLen(4) + MetadataLen(6)

\* The entries a task has taken from its directory stream so far.
EntriesRead(t) == {ReadDirEntries(Path(t))[k] : k \in 1..(tasks[t].pos - 1)}

C18_SymlinksNotFollowed ==
    /\ \A t \in TaskIds :
          /\ Path(t) = Root \/ (kind[Path(t)] = "dir" /\ OnDisk(kind, Path(t)))
          /\ \A r \in Range(tasks[t].found) : kind[r.path] = "dir"
          /\ \A u \in TaskIds : Path(u) = Path(t) => u = t
    /\ \A r \in Range(node_modules) : kind[r.path] = "dir"

\* C18 witness: find passed by the symlink 3 and the size pass counted the
\* symlink 4 inside node_modules 2 without descending into it.
C18_Witness ==
    /\ SizesReturned
    /\ faults = {}
    /\ kind[3] = "link"
    /\ kind[4] = "link"
    /\ Len(node_modules) = 1
    /\ node_modules[1] = [path |-> 2, size |-> Some(MetadataLen(4))]

\* C19: under fair scheduling every find, size pass and deletion that has
\* started eventually returns, for every disk, every cap from 1 on and
\* every failure of a filesystem call, a next_entry that keeps failing
\* included.
C19_EveryOperationReturns ==
    /\ (phase = "find") ~> FindReturned
    /\ SizePhase ~> SizesReturned
    /\ NukePhase ~> NukeReturned

\* Path n lies in the tree rooted at path r.
InTree(n, r) == n = r \/ r \in Ancestors(n)

\* C20: the records find returns have pairwise distinct paths, none inside
\* another; so the tasks that size or remove different records work inside
\* their own record's tree and never on the same directory.
C20_RecordsDisjoint ==
    /\ \A i, j \in 1..Len(node_modules) :
          i # j => ~InTree(node_modules[i].path, node_modules[j].path)
    /\ (SizePhase \/ NukePhase) =>
          \A t \in TaskIds :
              /\ Slot(t) \in 1..Len(node_modules)
              /\ InTree(Path(t), node_modules[Slot(t)].path)
              /\ \A u \in TaskIds : Slot(u) # Slot(t) => Path(u) # Path(t)

\* C20 witness: the size tasks of two records list their directories at
\* the same time, one inside each record's tree.
C20_Witness ==
    /\ SizePhase
    /\ Len(node_modules) = 2
    /\ \E t, u \in Working :
          /\ Slot(t) = 1 /\ Slot(u) = 2
          /\ tasks[t].pc = "enum" /\ tasks[u].pc = "enum"
          /\ Path(t) # node_modules[1].path

====
